---------------------------- MODULE Spec2Model ----------------------------
(***************************************************************************)
(* Model of the news scraper: the validator is_valid_news, the six         *)
(* per-site extractors, scrape_university and the thread-pool aggregator   *)
(* scrape_all_universities (src/scrapers.py), and the session state the    *)
(* app keeps of the last run (src/app.py).                                 *)
(*                                                                         *)
(* Text is a sequence of one-character strings.  A CJK character is the    *)
(* token "uXXXX" of its code point, so that len() counts it as one         *)
(* character, as Python does.                                              *)
(***************************************************************************)
EXTENDS Integers, Sequences, FiniteSets, TLC

---------------------------------------------------------------------------
(* Text primitives: the str and re operations the source uses.             *)

Digits == {"0", "1", "2", "3", "4", "5", "6", "7", "8", "9"}

Letters == {"a", "b", "c", "d", "e", "f", "g", "h", "i", "j", "k", "l", "m",
            "n", "o", "p", "q", "r", "s", "t", "u", "v", "w", "x", "y", "z"}

Whitespace == {" "}

SetMin(S) == CHOOSE x \in S : \A y \in S : x <= y

SetMax(S) == CHOOSE x \in S : \A y \in S : x >= y

\* s.startswith(p)
StartsWith(s, p) == Len(p) <= Len(s) /\ SubSeq(s, 1, Len(p)) = p

\* p in s
Contains(s, p) ==
    \E i \in 1..(Len(s) - Len(p) + 1) : SubSeq(s, i, i + Len(p) - 1) = p

\* s.replace(a, b) for one-character a and b
ReplaceChar(s, a, b) ==
    IF s = <<>> THEN <<>>
    ELSE [i \in 1..Len(s) |-> IF s[i] = a THEN b ELSE s[i]]

\* s.strip(), get_text(strip=True)
Strip(s) ==
    LET keep == {i \in 1..Len(s) : s[i] \notin Whitespace}
    IN  IF keep = {} THEN <<>> ELSE SubSeq(s, SetMin(keep), SetMax(keep))

\* The separators of the two date patterns of the source.
ListSeps == {"-", "/"}

AnySeps == {"-", "/", "."}

\* Length of the match of \d{4}[seps]\d{1,2}[seps]\d{1,2} that starts at
\* index i of s, 0 when there is none.  \d{1,2} is greedy and backtracks.
DateMatchLen(s, i, seps) ==
    LET d(k) == k <= Len(s) /\ s[k] \in Digits
        sp(k) == k <= Len(s) /\ s[k] \in seps
        Day(j) == IF d(j) /\ d(j + 1) THEN 2 ELSE IF d(j) THEN 1 ELSE 0
        After(m) == IF sp(i + 5 + m) /\ Day(i + 6 + m) > 0
                   THEN 6 + m + Day(i + 6 + m)
                   ELSE 0
    IN  IF d(i) /\ d(i + 1) /\ d(i + 2) /\ d(i + 3) /\ sp(i + 4)
        THEN IF d(i + 5) /\ d(i + 6) /\ After(2) > 0 THEN After(2)
             ELSE IF d(i + 5) THEN After(1)
             ELSE 0
        ELSE 0

\* re.search(r"(\d{4}[seps]\d{1,2}[seps]\d{1,2})", s): group(1) of the
\* leftmost match, <<>> when re.search returns None.
SearchDate(s, seps) ==
    LET hits == {i \in 1..Len(s) : DateMatchLen(s, i, seps) > 0}
    IN  IF hits = {} THEN <<>>
        ELSE LET i == SetMin(hits)
             IN  SubSeq(s, i, i + DateMatchLen(s, i, seps) - 1)

\* re.sub(r"^\d{4}[-/\.]\d{1,2}[-/\.]\d{1,2}\s*", "", s)
SubLeadingDate(s) ==
    LET n == DateMatchLen(s, 1, AnySeps)
        rest == SubSeq(s, n + 1, Len(s))
        keep == {i \in 1..Len(rest) : rest[i] \notin Whitespace}
    IN  IF n = 0 THEN s
        ELSE IF keep = {} THEN <<>>
        ELSE SubSeq(rest, SetMin(keep), Len(rest))

\* .replace(".", "-").replace("/", "-")
NormalizeSeps(s) == ReplaceChar(ReplaceChar(s, ".", "-"), "/", "-")

---------------------------------------------------------------------------
(* urllib.parse.urljoin, for URLs without query, fragment or dot segments. *)

SchemeChars == Letters \cup Digits \cup {"+", "-", "."}

http == <<"h", "t", "t", "p">>

https == <<"h", "t", "t", "p", "s">>

\* The schemes of urllib's uses_relative that the configured sites meet.
UsesRelative == {http, https}

\* Index of the ":" that ends the scheme of u, 0 when u has no scheme
\* (urlsplit: the text before the first ":" is a scheme when it starts
\* with a letter and holds only scheme characters).
SchemeEnd(u) ==
    LET cs == {i \in 1..Len(u) : u[i] = ":"}
    IN  IF cs = {} THEN 0
        ELSE LET i == SetMin(cs)
             IN  IF i > 1 /\ u[1] \in Letters
                          /\ \A k \in 1..(i - 1) : u[k] \in SchemeChars
                 THEN i ELSE 0

\* The "//netloc" of a base URL "scheme://netloc/path", and its path.
NetlocEnd(b) ==
    LET bi == SchemeEnd(b)
        sl == {i \in (bi + 3)..Len(b) : b[i] = "/"}
    IN  IF sl = {} THEN Len(b) ELSE SetMin(sl) - 1

BaseDir(b) ==
    LET path == SubSeq(b, NetlocEnd(b) + 1, Len(b))
        sl == {i \in 1..Len(path) : path[i] = "/"}
    IN  IF sl = {} THEN <<"/">> ELSE SubSeq(path, 1, SetMax(sl))

urljoin(base, url) ==
    IF url = <<>> THEN base
    ELSE
      LET bi == SchemeEnd(base)
          bscheme == SubSeq(base, 1, bi - 1)
          ui == SchemeEnd(url)
          scheme == IF ui > 0 THEN SubSeq(url, 1, ui - 1) ELSE bscheme
          rest == SubSeq(url, ui + 1, Len(url))
          root == SubSeq(base, 1, NetlocEnd(base))
      IN  IF scheme # bscheme \/ scheme \notin UsesRelative THEN url
          ELSE IF StartsWith(rest, <<"/", "/">>) THEN scheme \o <<":">> \o rest
          ELSE IF rest = <<>> THEN base
          ELSE IF rest[1] = "/" THEN root \o rest
          ELSE root \o BaseDir(base) \o rest

---------------------------------------------------------------------------
(* The validator.                                                          *)

MinTitleLen == 6

ShortTitleLen == 10

\* The navigation labels, in the order of the source (home, more, detail,
\* view, click, download, login, register, the section names, the party and
\* association names).
nav_keywords == {
    <<"u9996", "u9875">>,
    <<"u66F4", "u591A">>,
    <<"u8BE6", "u60C5">>,
    <<"u67E5", "u770B">>,
    <<"u70B9", "u51FB">>,
    <<"u4E0B", "u8F7D">>,
    <<"u767B", "u5F55">>,
    <<"u6CE8", "u518C">>,
    <<"u90E8", "u95E8", "u6982", "u51B5">>,
    <<"u7EDF", "u6218", "u56E2", "u4F53">>,
    <<"u6C11", "u4E3B", "u515A", "u6D3E">>,
    <<"u53C2", "u653F", "u8BAE", "u653F">>,
    <<"u7406", "u8BBA", "u56ED", "u5730">>,
    <<"u670D", "u52A1", "u6307", "u5357">>,
    <<"u590D", "u65E6", "u7EDF", "u6218">>,
    <<"u4E24", "u4F1A", "u4E13", "u9898">>,
    <<"u4EA4", "u5927", "u9996", "u9875">>,
    <<"u667A", "u6167", "u7EDF", "u6218">>,
    <<"u4E2D", "u56FD", "u4EBA", "u5927", "u7F51">>,
    <<"u4E2D", "u56FD", "u653F", "u534F", "u7F51">>,
    <<"u4E2D", "u592E", "u7EDF", "u6218", "u90E8">>,
    <<"u4E0A", "u6D77", "u7EDF", "u4E00", "u6218", "u7EBF">>,
    <<"u6C11", "u9769">>,
    <<"u6C11", "u76DF">>,
    <<"u6C11", "u5EFA">>,
    <<"u6C11", "u8FDB">>,
    <<"u519C", "u5DE5", "u515A">>,
    <<"u81F4", "u516C", "u515A">>,
    <<"u4E5D", "u4E09", "u5B66", "u793E">>,
    <<"u53F0", "u76DF">>,
    <<"u4FA8", "u8054">>,
    <<"u6B27", "u7F8E", "u540C", "u5B66", "u4F1A">>,
    <<"u77E5", "u8054", "u4F1A">>,
    <<"u53F0", "u8054">>,
    <<"u6C11", "u65CF", "u8054">>
}

list_htm == <<"l", "i", "s", "t", ".", "h", "t", "m">>

slash_c == <<"/", "c">>

\* is_valid_news with "<= 10" for "< 10" in the denylist test.
is_valid_news_le10(title, url, date_text) ==
    IF Len(title) < MinTitleLen THEN FALSE
    ELSE IF title \in nav_keywords THEN FALSE
    ELSE IF \E kw \in nav_keywords :
                title = kw \/ (Len(title) <= ShortTitleLen /\ Contains(title, kw))
         THEN FALSE
    ELSE IF Contains(url, list_htm) /\ ~Contains(url, slash_c) THEN FALSE
    ELSE IF date_text = <<>> THEN FALSE
    ELSE TRUE

is_valid_news(title, url, date_text) ==
    IF Len(title) < MinTitleLen THEN FALSE
    ELSE IF title \in nav_keywords THEN FALSE
    ELSE IF \E kw \in nav_keywords :
                title = kw \/ (Len(title) < ShortTitleLen /\ Contains(title, kw))
         THEN FALSE
    ELSE IF Contains(url, list_htm) /\ ~Contains(url, slash_c) THEN FALSE
    ELSE IF date_text = <<>> THEN FALSE
    ELSE TRUE

---------------------------------------------------------------------------
(* The extractors.  A list page is the sequence of its <li> elements:      *)
(*   sel      the element matches "ul.news_list li, ul.wp_article_list li, *)
(*            div.news_list li"                                            *)
(*   hasLink  item.find("a") finds an anchor; title is its text, href its  *)
(*            href attribute (<<>> when absent or empty)                   *)
(*   hasSpan  item.find("span", class_=date|time|Article_PublishDate)      *)
(*            finds a span; span is its text                               *)
(*   rest     the element's remaining text                                 *)
(* The page of the path-pattern site is the sequence of its anchors: href, *)
(* the anchor's text, and rest, the other text of the anchor's parent.     *)

NewsRecord(source, title, date_text, url) ==
    [source |-> source, title |-> title, date |-> date_text, url |-> url]

\* item.get_text(): the element's text, in document order
ItemText(item) ==
    (IF item.hasLink THEN item.title ELSE <<>>)
        \o (IF item.hasSpan THEN item.span ELSE <<>>) \o item.rest

RECURSIVE Flatten(_)
Flatten(ss) == IF ss = <<>> THEN <<>> ELSE Head(ss) \o Flatten(Tail(ss))

\* news_items of the list-based parsers: the primary selector, and the <li>
\* elements holding a date when it selects nothing.
NewsItems(html) ==
    LET primary == SelectSeq(html, LAMBDA li : li.sel)
        hasDate(li) == SearchDate(ItemText(li), ListSeps) # <<>>
    IN  IF primary # <<>> THEN primary ELSE SelectSeq(html, hasDate)

\* The date of a list item: the span's text when there is a span, else the
\* first date of the item's text with "/" replaced by "-".
ItemDate(item) ==
    IF item.hasSpan THEN Strip(item.span)
    ELSE ReplaceChar(SearchDate(ItemText(item), ListSeps), "/", "-")

\* The body of the for loop of the four list-based parsers.
ParseListItem(source, item, base_url) ==
    IF ~item.hasLink \/ item.href = <<>> THEN <<>>
    ELSE LET title == Strip(item.title)
             url == urljoin(base_url, item.href)
             date_text == ItemDate(item)
         IN  IF is_valid_news(title, url, date_text)
             THEN <<NewsRecord(source, title, date_text, url)>>
             ELSE <<>>

ParseList(source, html, base_url) ==
    LET items == NewsItems(html)
    IN  Flatten([i \in 1..Len(items) |-> ParseListItem(source, items[i], base_url)])

parse_fudan(html, base_url) == ParseList("fudan", html, base_url)

parse_tongji(html, base_url) == ParseList("tongji", html, base_url)

parse_ecnu(html, base_url) == ParseList("ecnu", html, base_url)

parse_shnu(html, base_url) == ParseList("shnu", html, base_url)

slash_post == <<"/", "p", "o", "s", "t", "/">>

\* The date of an anchor of the path-pattern site: from the anchor's text,
\* else from the parent's text.
LinkDate(link) ==
    LET inTitle == SearchDate(Strip(link.text), AnySeps)
    IN  IF inTitle # <<>> THEN NormalizeSeps(inTitle)
        ELSE NormalizeSeps(SearchDate(link.text \o link.rest, AnySeps))

ParseSjtuLink(link, base_url) ==
    LET url == urljoin(base_url, link.href)
        raw == Strip(link.text)
        date_text == LinkDate(link)
        title == Strip(IF SearchDate(raw, AnySeps) # <<>>
                       THEN SubLeadingDate(raw) ELSE raw)
    IN  IF title # <<>> /\ Len(title) >= MinTitleLen /\ date_text # <<>>
        THEN <<NewsRecord("sjtu", title, date_text, url)>>
        ELSE <<>>

parse_sjtu(html, base_url) ==
    LET news_links == SelectSeq(html, LAMBDA a : Contains(a.href, slash_post))
    IN  Flatten([i \in 1..Len(news_links) |-> ParseSjtuLink(news_links[i], base_url)])

(* The data feed https://www.shsy.org.cn/json/gzdt.js as parse_shsy meets   *)
(* it: raises (requests.get raised), assigned (the text holds               *)
(* "var gzdtList = [...]"), parses (json.loads accepts the array), and data, *)
(* the array's elements; typed is false for an element that is no object    *)
(* of strings, on which item.get(...).strip() raises.                       *)

shsy_root == <<"h", "t", "t", "p", "s", ":", "/", "/", "w", "w", "w", ".",
               "s", "h", "s", "y", ".", "o", "r", "g", ".", "c", "n", "/">>

detailpage == <<"d", "e", "t", "a", "i", "l", "p", "a", "g", "e", "/">>

FeedTitleLen == 2

\* FeedUrl joining the detail-page path to the base URL, which has no
\* trailing "/".
FeedUrlNoSlash(msg_url) ==
    IF StartsWith(msg_url, http) THEN msg_url
    ELSE IF StartsWith(msg_url, detailpage)
    THEN SubSeq(shsy_root, 1, Len(shsy_root) - 1) \o msg_url
    ELSE IF msg_url # <<>> THEN urljoin(shsy_root, msg_url)
    ELSE <<>>

\* The URL parse_shsy builds from messageurl; <<>> stands for "continue".
FeedUrl(msg_url) ==
    IF StartsWith(msg_url, http) THEN msg_url
    ELSE IF StartsWith(msg_url, detailpage) THEN shsy_root \o msg_url
    ELSE IF msg_url # <<>> THEN urljoin(shsy_root, msg_url)
    ELSE <<>>

ParseFeedItem(item) ==
    IF ~item.typed THEN <<>>
    ELSE LET title == Strip(item.messagetitle)
             date_text == Strip(item.messagedate)
             msg_url == Strip(item.messageurl)
             url == FeedUrl(msg_url)
         IN  IF msg_url = <<>> THEN <<>>
             ELSE IF title # <<>> /\ Len(title) >= FeedTitleLen /\ date_text # <<>>
             THEN <<NewsRecord("shsy", title, date_text, url)>>
             ELSE <<>>

\* parse_shsy ignores html and base_url: the records come from the feed.
parse_shsy(html, base_url, feed) ==
    IF feed.raises \/ ~feed.assigned \/ ~feed.parses THEN <<>>
    ELSE Flatten([i \in 1..Len(feed.data) |-> ParseFeedItem(feed.data[i])])

---------------------------------------------------------------------------
(* The configuration.  A site is named by its parser key; the source and    *)
(* the error strings carry the site's display name, one per key.            *)

Sites == <<"fudan", "sjtu", "tongji", "ecnu", "shnu", "shsy">>

SiteSet == {Sites[i] : i \in 1..Len(Sites)}

ListSites == {"fudan", "tongji", "ecnu", "shnu"}

HtmlSites == ListSites \cup {"sjtu"}

UNIVERSITIES ==
    [s \in SiteSet |->
        [base_url |->
            CASE s = "fudan"  -> <<"h", "t", "t", "p", "s", ":", "/", "/", "w", "w", "w", ".", "t", "z", "b", ".", "f", "u", "d", "a", "n", ".", "e", "d", "u", ".", "c", "n">>
              [] s = "sjtu"   -> <<"h", "t", "t", "p", "s", ":", "/", "/", "t", "z", "b", ".", "s", "j", "t", "u", ".", "e", "d", "u", ".", "c", "n">>
              [] s = "tongji" -> <<"h", "t", "t", "p", "s", ":", "/", "/", "t", "z", "b", ".", "t", "o", "n", "g", "j", "i", ".", "e", "d", "u", ".", "c", "n">>
              [] s = "ecnu"   -> <<"h", "t", "t", "p", "s", ":", "/", "/", "t", "z", "b", ".", "e", "c", "n", "u", ".", "e", "d", "u", ".", "c", "n">>
              [] s = "shnu"   -> <<"h", "t", "t", "p", "s", ":", "/", "/", "t", "z", "b", ".", "s", "h", "n", "u", ".", "e", "d", "u", ".", "c", "n">>
              [] s = "shsy"   -> <<"h", "t", "t", "p", "s", ":", "/", "/", "w", "w", "w", ".", "s", "h", "s", "y", ".", "o", "r", "g", ".", "c", "n">>,
         parser |-> s]]

\* The keys of PARSERS.
PARSERS == {"fudan", "sjtu", "tongji", "ecnu", "shnu", "shsy"}

max_workers == 5

---------------------------------------------------------------------------
(* The listing pages and the feed the sites serve in the aggregator's       *)
(* runs: one news item per site, plus a navigation item on the first page.  *)
(* The first page dates its item in a span, with "/"; the second and third  *)
(* carry the same day.                                                      *)

Page(s) ==
    CASE s = "fudan" ->
        <<[sel |-> TRUE, hasLink |-> TRUE, title |-> <<"f", "d", "n", "e", "w", "s">>, href |-> <<"/", "c", "1", "/", "a", ".", "h", "t", "m">>,
         hasSpan |-> TRUE, span |-> <<"2", "0", "2", "4", "/", "0", "3", "/", "0", "5">>, rest |-> <<>>],
          [sel |-> TRUE, hasLink |-> TRUE, title |-> <<"m", "o", "r", "e">>, href |-> <<"/", "l", "i", "s", "t", ".", "h", "t", "m">>,
         hasSpan |-> FALSE, span |-> <<>>, rest |-> <<>>]>>
      [] s = "sjtu" ->
        <<[href |-> <<"/", "p", "o", "s", "t", "/", "1">>, text |-> <<"2", "0", "2", "4", ".", "0", "3", ".", "0", "5", " ", "s", "j", "n", "e", "w", "s">>,
           rest |-> <<>>]>>
      [] s = "tongji" ->
        <<[sel |-> TRUE, hasLink |-> TRUE, title |-> <<"t", "j", "n", "e", "w", "s">>, href |-> <<"/", "c", "2", "/", "b", ".", "h", "t", "m">>,
         hasSpan |-> FALSE, span |-> <<>>, rest |-> <<"2", "0", "2", "4", "-", "0", "3", "-", "0", "5">>]>>
      [] s = "ecnu" ->
        <<[sel |-> TRUE, hasLink |-> TRUE, title |-> <<"e", "c", "n", "e", "w", "s">>, href |-> <<"/", "c", "3", "/", "c", ".", "h", "t", "m">>,
         hasSpan |-> TRUE, span |-> <<"2", "0", "2", "4", "-", "1", "2", "-", "3", "1">>, rest |-> <<>>]>>
      [] s = "shnu" ->
        <<[sel |-> FALSE, hasLink |-> TRUE, title |-> <<"s", "h", "n", "e", "w", "s">>, href |-> <<"/", "c", "4", "/", "d", ".", "h", "t", "m">>,
         hasSpan |-> FALSE, span |-> <<>>, rest |-> <<"2", "0", "2", "3", "/", "1", "/", "9">>]>>
      [] s = "shsy" -> <<>>

FeedData ==
    <<[typed |-> TRUE, messagetitle |-> <<"s", "y">>,
       messagedate |-> <<"2", "0", "2", "4", "-", "0", "1", "-", "0", "1">>,
       messageurl |-> <<"d", "e", "t", "a", "i", "l", "p", "a", "g", "e", "/", "1", ".", "h", "t", "m", "l">>]>>

\* What the feed request meets.
FeedModes == {"ok", "raises", "unassigned", "unparsable"}

Feed(mode) ==
    [raises |-> mode = "raises", assigned |-> mode # "unassigned",
     parses |-> mode # "unparsable", data |-> FeedData]

---------------------------------------------------------------------------
(* One task: scrape_university.  The world says what the network and the   *)
(* HTML parser do in a run: net, whether the GET of a site's listing page   *)
(* succeeds; raises, whether the site's extractor raises outside its        *)
(* per-item handler (BeautifulSoup(html, "lxml") or a selector fails);      *)
(* feed, what the request of the data feed meets.                           *)

\* fetch_page: <<text>>, or <<>> for None.
fetch_page(name, w) == IF w.net[name] = "ok" THEN <<Page(name)>> ELSE <<>>

\* The three error strings: the site's name and a fixed suffix.
ErrorString(name, kind) == [site |-> name, kind |-> kind]

\* parser(html, config["base_url"]) for the function PARSERS maps p to.
RunParser(p, html, base_url, feed) ==
    CASE p = "fudan"  -> parse_fudan(html, base_url)
      [] p = "sjtu"   -> parse_sjtu(html, base_url)
      [] p = "tongji" -> parse_tongji(html, base_url)
      [] p = "ecnu"   -> parse_ecnu(html, base_url)
      [] p = "shnu"   -> parse_shnu(html, base_url)
      [] p = "shsy"   -> parse_shsy(html, base_url, feed)

\* scrape_university with a parse_shsy that lets the feed's failure out.
scrape_university_feed_raises(name, config, w) ==
    IF w.net[name] # "ok"
    THEN [name |-> name, news |-> <<>>,
          error |-> <<[site |-> name, kind |-> "fetch_failed"]>>]
    ELSE IF w.raises[name] \/ (name = "shsy" /\ w.feed # "ok")
    THEN [name |-> name, news |-> <<>>,
          error |-> <<[site |-> name, kind |-> "exception"]>>]
    ELSE [name |-> name,
          news |-> RunParser(config.parser, Page(name), config.base_url,
                             Feed("ok")),
          error |-> <<>>]

\* parser(html, base_url) on each site's page, for each state of the feed:
\* the extractors are functions of the page and the feed, tabulated here.
ParserOutput ==
    [s \in SiteSet |->
        [m \in FeedModes |->
            RunParser(UNIVERSITIES[s].parser, Page(s),
                      UNIVERSITIES[s].base_url, Feed(m))]]

\* scrape_university whose except branch hands on the records along with
\* the error.
scrape_university_keeps_news(name, config, w) ==
    LET html == fetch_page(name, w)
    IN  IF html = <<>>
        THEN [name |-> name, news |-> <<>>,
              error |-> <<ErrorString(name, "fetch_failed")>>]
        ELSE IF w.raises[name]
        THEN [name |-> name, news |-> ParserOutput[name][w.feed],
              error |-> <<ErrorString(name, "exception")>>]
        ELSE [name |-> name, news |-> ParserOutput[name][w.feed], error |-> <<>>]

\* The triple (name, news, error); error is <<>> for None.
scrape_university(name, config, w) ==
    LET html == fetch_page(name, w)
    IN  IF html = <<>>
        THEN [name |-> name, news |-> <<>>,
              error |-> <<ErrorString(name, "fetch_failed")>>]
        ELSE IF config.parser \notin PARSERS
        THEN [name |-> name, news |-> <<>>,
              error |-> <<ErrorString(name, "parser_not_found")>>]
        ELSE IF w.raises[name]
        THEN [name |-> name, news |-> <<>>,
              error |-> <<ErrorString(name, "exception")>>]
        ELSE [name |-> name, news |-> ParserOutput[name][w.feed], error |-> <<>>]

\* The requests a parser issues: parse_shsy gets the feed, the other
\* parsers read the page they are given.
ParserRequests(p) == IF p = "shsy" THEN <<"feed">> ELSE <<>>

\* Requests of a task that gets the feed whatever became of the page.
RequestsEager(name, config, w) == <<"page">> \o ParserRequests(config.parser)

\* The requests scrape_university issues, in order: fetch_page gets the
\* listing page, once, and the parser is called if the page came.
Requests(name, config, w) ==
    LET html == fetch_page(name, w)
    IN  IF html = <<>> THEN <<"page">>
        ELSE IF config.parser \notin PARSERS THEN <<"page">>
        ELSE <<"page">> \o ParserRequests(config.parser)

---------------------------------------------------------------------------
(* The sort of scrape_all_universities.                                    *)

CodePoint ==
    (" " :> 32) @@ ("-" :> 45) @@ ("." :> 46) @@ ("/" :> 47) @@
    ("0" :> 48) @@ ("1" :> 49) @@ ("2" :> 50) @@ ("3" :> 51) @@ ("4" :> 52) @@
    ("5" :> 53) @@ ("6" :> 54) @@ ("7" :> 55) @@ ("8" :> 56) @@ ("9" :> 57)

\* a < b for Python strings: by code point, a proper prefix first.
RECURSIVE StrLess(_, _)
StrLess(a, b) ==
    IF b = <<>> THEN FALSE
    ELSE IF a = <<>> THEN TRUE
    ELSE IF Head(a) = Head(b) THEN StrLess(Tail(a), Tail(b))
    ELSE CodePoint[Head(a)] < CodePoint[Head(b)]

sentinel == <<"0", "0", "0", "0", "-", "0", "0", "-", "0", "0">>

\* The sort key.
parse_date(item) ==
    IF item.date # <<>> THEN ReplaceChar(item.date, "/", "-") ELSE sentinel

\* list.sort(key=parse_date, reverse=True): descending by key, and stable:
\* of two records with equal keys the one that stood first stays first.
SortNews(news) ==
    LET n == Len(news)
        Before(j, i) ==
            \/ StrLess(parse_date(news[i]), parse_date(news[j]))
            \/ parse_date(news[i]) = parse_date(news[j]) /\ j < i
        Pos(i) == 1 + Cardinality({j \in 1..n : Before(j, i)})
    IN  IF news = <<>> THEN <<>>
        ELSE [p \in 1..n |-> news[CHOOSE i \in 1..n : Pos(i) = p]]

---------------------------------------------------------------------------
(* State.                                                                  *)

VARIABLES
    world,          \* what the network and the parsers do
    pc,             \* "idle": no run in progress; "pool": inside the with block
    work_queue,     \* the executor's queue of submitted, not yet started tasks
    task,           \* per site: "none", "pending", "running", "finished", "collected"
    future,         \* per site: the finished task's result
    requests,       \* per site: the requests the site's task has issued, in order
    all_news,       \* scrape_all_universities' all_news
    errors,         \* scrape_all_universities' errors
    news_data,      \* st.session_state.news_data
    session_errors, \* st.session_state.errors
    fetched,        \* st.session_state.fetched
    call,           \* a call of the validator or of an extractor, with its arguments
    ret             \* what the call returned

poolVars == <<pc, work_queue, task, future, requests, all_news, errors>>

sessionVars == <<news_data, session_errors, fetched>>

callVars == <<call, ret>>

vars == <<world, pc, work_queue, task, future, requests, all_news, errors,
          news_data, session_errors, fetched, call, ret>>

MaxFaults == 1

FaultCount(w) ==
    Cardinality({s \in SiteSet : w.net[s] = "fail"})
        + Cardinality({s \in SiteSet : w.raises[s]})
        + (IF w.feed # "ok" THEN 1 ELSE 0)

\* A fault shows only where the run reaches it: a parser runs, and the feed
\* is requested, only after the site's page was fetched.
Reachable(w) ==
    /\ \A s \in SiteSet : w.raises[s] => s \in HtmlSites /\ w.net[s] = "ok"
    /\ w.feed # "ok" => w.net["shsy"] = "ok"

Worlds ==
    {w \in [net : [SiteSet -> {"ok", "fail"}], raises : [SiteSet -> BOOLEAN],
            feed : FeedModes] :
        /\ Reachable(w)
        /\ FaultCount(w) <= MaxFaults \/ \A s \in SiteSet : w.net[s] = "fail"}

NoCall == [fn |-> "none"]

NoFuture == [name |-> "none", news |-> <<>>, error |-> <<>>]

Running == {s \in SiteSet : task[s] = "running"}

---------------------------------------------------------------------------
(* scrape_all_universities.                                                *)

\* Lines 463-470: the lists are created empty and one task per site is
\* submitted, in the order of UNIVERSITIES.
Submitted ==
    /\ pc = "pool"
    /\ work_queue = Sites
    /\ task = [s \in SiteSet |-> "pending"]
    /\ future = [s \in SiteSet |-> NoFuture]
    /\ requests = [s \in SiteSet |-> <<>>]
    /\ all_news = <<>>
    /\ errors = <<>>

\* CanStart of a pool without the cap.
CanStartUnbounded == work_queue # <<>>

\* A worker thread takes the oldest queued task; the pool has max_workers
\* threads, each running one task at a time.
CanStart == work_queue # <<>> /\ Cardinality(Running) < max_workers

Start ==
    /\ pc = "pool"
    /\ CanStart
    /\ task' = [task EXCEPT ![Head(work_queue)] = "running"]
    /\ work_queue' = Tail(work_queue)
    /\ UNCHANGED <<world, pc, future, requests, all_news, errors, sessionVars, callVars>>

\* The task runs scrape_university to its end and the future gets its result.
Finish(s) ==
    /\ pc = "pool"
    /\ task[s] = "running"
    /\ future' = [future EXCEPT ![s] = scrape_university(s, UNIVERSITIES[s], world)]
    /\ requests' = [requests EXCEPT ![s] = Requests(s, UNIVERSITIES[s], world)]
    /\ task' = [task EXCEPT ![s] = "finished"]
    /\ UNCHANGED <<world, pc, work_queue, all_news, errors, sessionVars, callVars>>

\* CollectErrors keeping only the first error.
CollectErrorsKeepFirst(errs, error) == IF errs = <<>> THEN error ELSE errs

\* CollectNews with "all_news = news" for "all_news.extend(news)".
CollectNewsAssign(news_so_far, news) == news

\* The body of the as_completed loop, lines 473-476.
CollectErrors(errs, error) == IF error # <<>> THEN errs \o error ELSE errs

CollectNews(news_so_far, news) == news_so_far \o news

\* as_completed hands over the finished futures, each once.
Collect(s) ==
    /\ pc = "pool"
    /\ task[s] = "finished"
    /\ errors' = CollectErrors(errors, future[s].error)
    /\ all_news' = CollectNews(all_news, future[s].news)
    /\ task' = [task EXCEPT ![s] = "collected"]
    /\ UNCHANGED <<world, pc, work_queue, future, requests, sessionVars, callVars>>

\* Lines 478-492 and the caller's lines in app.py: the loop has ended, the
\* list is sorted, and the pair is returned and stored for display.
Return ==
    /\ pc = "pool"
    /\ \A s \in SiteSet : task[s] = "collected"
    /\ all_news' = SortNews(all_news)
    /\ news_data' = all_news'
    /\ session_errors' = errors
    /\ fetched' = TRUE
    /\ pc' = "idle"
    /\ UNCHANGED <<world, work_queue, task, future, requests, errors, callVars>>

\* FetchButton of a run that goes on with the lists of the run before it.
FetchButtonWarm ==
    /\ pc = "idle"
    /\ pc' = "pool"
    /\ work_queue' = Sites
    /\ task' = [s \in SiteSet |-> "pending"]
    /\ future' = [s \in SiteSet |-> NoFuture]
    /\ requests' = [s \in SiteSet |-> <<>>]
    /\ UNCHANGED <<world, all_news, errors, sessionVars, callVars>>

\* The fetch button of the app: a run starts.
FetchButton ==
    /\ pc = "idle"
    /\ pc' = "pool"
    /\ work_queue' = Sites
    /\ task' = [s \in SiteSet |-> "pending"]
    /\ future' = [s \in SiteSet |-> NoFuture]
    /\ requests' = [s \in SiteSet |-> <<>>]
    /\ all_news' = <<>>
    /\ errors' = <<>>
    /\ UNCHANGED <<world, sessionVars, callVars>>

SessionEmpty == news_data = <<>> /\ session_errors = <<>> /\ fetched = FALSE

\* No run in progress.
PoolIdle ==
    /\ pc = "idle"
    /\ work_queue = <<>>
    /\ task = [s \in SiteSet |-> "none"]
    /\ future = [s \in SiteSet |-> NoFuture]
    /\ requests = [s \in SiteSet |-> <<>>]
    /\ all_news = <<>>
    /\ errors = <<>>

\* One run of scrape_all_universities, from the tasks' submission.
Init ==
    /\ world \in Worlds
    /\ Submitted
    /\ SessionEmpty
    /\ call = NoCall
    /\ ret = <<>>

Next ==
    \/ Start
    \/ \E s \in SiteSet : Finish(s)
    \/ \E s \in SiteSet : Collect(s)
    \/ Return

Spec == Init /\ [][Next]_vars

\* The threads are scheduled and every request ends (REQUEST_TIMEOUT): a
\* step that can be taken is taken.
FairSpec == Spec /\ WF_vars(Next)

\* The app: any number of runs, each started by the fetch button, against
\* the same pages.
InitApp ==
    /\ world \in {w \in Worlds : FaultCount(w) <= MaxFaults}
    /\ PoolIdle
    /\ SessionEmpty
    /\ call = NoCall
    /\ ret = <<>>

NextApp == FetchButton \/ Next

SpecApp == InitApp /\ [][NextApp]_vars

---------------------------------------------------------------------------
(* Calls of the validator and of the extractors on their own.              *)

CalmWorld ==
    [net |-> [s \in SiteSet |-> "ok"], raises |-> [s \in SiteSet |-> FALSE],
     feed |-> "ok"]

base_fudan == UNIVERSITIES["fudan"].base_url

TitleInputs == {
    <<"a", "b", "c", "d", "e">>,
    <<"a", "b", "c", "d", "e", "f">>,
    <<"a", "b", "c", "d", "e", "f", "g", "h", "i", "j">>,
    <<"u4E0A", "u6D77", "u7EDF", "u4E00", "u6218", "u7EBF">>,
    <<"u6C11", "u9769", "a", "b", "c", "d">>,
    <<"u6C11", "u9769", "a", "b", "c", "d", "e", "f", "g">>,
    <<"u6C11", "u9769", "a", "b", "c", "d", "e", "f", "g", "h">>
}

UrlInputs == {
    base_fudan \o <<"/", "c", "1", "/", "a", ".", "h", "t", "m">>,
    base_fudan \o <<"/", "a", ".", "h", "t", "m">>,
    base_fudan \o <<"/", "l", "i", "s", "t", ".", "h", "t", "m">>,
    base_fudan \o <<"/", "c", "1", "/", "l", "i", "s", "t", ".", "h", "t", "m">>
}

DateInputs == {
    <<>>,
    <<"2", "0", "2", "4", "-", "0", "3", "-", "0", "5">>,
    <<"2", "0", "2", "4", "/", "0", "3", "/", "0", "5">>,
    <<"2", "0", "2", "4", ".", "0", "3", ".", "0", "5">>
}

HrefInputs == {
    <<>>,
    <<"/", "c", "1", "/", "a", ".", "h", "t", "m">>,
    <<"c", "1", "/", "a", ".", "h", "t", "m">>,
    <<"h", "t", "t", "p", ":", "/", "/", "x", ".", "c", "n", "/", "c", "1", "/", "a">>,
    <<"h", "t", "t", "p", "d", "/", "c", "1", ".", "h", "t", "m">>,
    <<"m", "a", "i", "l", "t", "o", ":", "a">>
}

ListTitleInputs == {
    <<"a", "b", "c", "d", "e">>,
    <<" ", "a", "b", "c", "d", "e", "f", " ">>,
    <<"u6C11", "u9769", "a", "b", "c", "d">>
}

RestInputs == {
    <<>>,
    <<"2", "0", "2", "4", "/", "0", "3", "/", "0", "5">>,
    <<"2", "0", "2", "4", ".", "0", "3", ".", "0", "5">>,
    <<"2", "0", "2", "4", "-", "3", "-", "5">>
}

LinkHrefInputs == {
    <<"/", "p", "o", "s", "t", "/", "1">>,
    <<"/", "n", "e", "w", "s", "/", "1">>,
    <<"h", "t", "t", "p", ":", "/", "/", "x", ".", "c", "n", "/", "p", "o", "s", "t", "/", "1">>
}

LinkTextInputs == {
    <<"2", "0", "2", "4", ".", "0", "3", ".", "0", "5", " ", "s", "j", "n", "e", "w", "s">>,
    <<"2", "0", "2", "4", "/", "0", "3", "/", "0", "5", " ", "s", "j", "n", "e", "w", "s">>,
    <<"s", "j", "n", "e", "w", "s", " ", "2", "0", "2", "4", "-", "3", "-", "5">>,
    <<"2", "0", "2", "4", "-", "0", "3", "-", "0", "5">>,
    <<"s", "j", "n", "e", "w", "s">>,
    <<"s", "j", "n", "e", "w">>
}

FeedTitleInputs == {<<>>, <<"T">>, <<"T", "T">>, <<" ", "T", " ">>}

FeedUrlInputs == {
    <<>>,
    <<"d", "e", "t", "a", "i", "l", "p", "a", "g", "e", "/", "1", ".", "h", "t", "m", "l">>,
    <<"h", "t", "t", "p", ":", "/", "/", "x", ".", "c", "n", "/", "1", ".", "h", "t", "m", "l">>,
    <<"h", "t", "t", "p", "d", "/", "1", ".", "h", "t", "m", "l">>,
    <<"/", "n", "o", "d", "e", "/", "1", ".", "h", "t", "m", "l">>,
    <<"n", "o", "d", "e", "/", "1", ".", "h", "t", "m", "l">>
}

ValidatorCalls ==
    {[fn |-> "is_valid_news", title |-> ti, url |-> u, date_text |-> d] :
        ti \in TitleInputs, u \in UrlInputs, d \in {<<>>, <<"2", "0", "2", "4", "-", "0", "3", "-", "0", "5">>}}

ListItems ==
    {[sel |-> sel, hasLink |-> TRUE, title |-> ti, href |-> h,
      hasSpan |-> FALSE, span |-> <<>>, rest |-> r] :
        sel \in BOOLEAN, ti \in ListTitleInputs, h \in HrefInputs, r \in RestInputs}
    \cup
    {[sel |-> sel, hasLink |-> TRUE, title |-> ti, href |-> h,
      hasSpan |-> TRUE, span |-> sp, rest |-> <<>>] :
        sel \in BOOLEAN, ti \in ListTitleInputs, h \in HrefInputs, sp \in DateInputs}
    \cup
    {[sel |-> sel, hasLink |-> TRUE, title |-> ti, href |-> h,
      hasSpan |-> TRUE, span |-> sp, rest |-> r] :
        sel \in BOOLEAN, ti \in ListTitleInputs, h \in HrefInputs,
        sp \in {<<>>, <<" ">>}, r \in RestInputs}
    \cup
    {[sel |-> TRUE, hasLink |-> FALSE, title |-> <<>>, href |-> <<>>,
      hasSpan |-> FALSE, span |-> <<>>, rest |-> r] : r \in RestInputs}

ListCalls ==
    {[fn |-> "parse_list", site |-> s, html |-> <<it>>] :
        s \in ListSites, it \in ListItems}

LinkCalls ==
    {[fn |-> "parse_sjtu", site |-> "sjtu",
      html |-> <<[href |-> h, text |-> tx, rest |-> r]>>] :
        h \in LinkHrefInputs, tx \in LinkTextInputs, r \in RestInputs}

FeedCalls ==
    {[fn |-> "parse_shsy", site |-> "shsy",
      feed |-> [raises |-> m = "raises", assigned |-> m # "unassigned",
                parses |-> m # "unparsable",
                data |-> <<[typed |-> ty, messagetitle |-> ti,
                            messagedate |-> d, messageurl |-> u]>>]] :
        m \in FeedModes, ty \in BOOLEAN, ti \in FeedTitleInputs,
        d \in DateInputs \cup {<<"2", "0", "2", "4", "-", "0", "1", "-", "0", "1">>}, u \in FeedUrlInputs}

CallValidator ==
    /\ call.fn = "is_valid_news"
    /\ ret = <<>>
    /\ ret' = <<is_valid_news(call.title, call.url, call.date_text)>>
    /\ UNCHANGED <<world, poolVars, sessionVars, call>>

CallListParser ==
    /\ call.fn = "parse_list"
    /\ ret = <<>>
    /\ ret' = <<RunParser(call.site, call.html,
                          UNIVERSITIES[call.site].base_url, Feed("ok"))>>
    /\ UNCHANGED <<world, poolVars, sessionVars, call>>

CallLinkParser ==
    /\ call.fn = "parse_sjtu"
    /\ ret = <<>>
    /\ ret' = <<parse_sjtu(call.html, UNIVERSITIES["sjtu"].base_url)>>
    /\ UNCHANGED <<world, poolVars, sessionVars, call>>

CallFeedParser ==
    /\ call.fn = "parse_shsy"
    /\ ret = <<>>
    /\ ret' = <<parse_shsy(<<>>, UNIVERSITIES["shsy"].base_url, call.feed)>>
    /\ UNCHANGED <<world, poolVars, sessionVars, call>>

InitCall ==
    /\ world = CalmWorld
    /\ PoolIdle
    /\ SessionEmpty
    /\ call \in ValidatorCalls \cup ListCalls \cup LinkCalls \cup FeedCalls
    /\ ret = <<>>

NextCall == CallValidator \/ CallListParser \/ CallLinkParser \/ CallFeedParser

SpecCall == InitCall /\ [][NextCall]_vars

---------------------------------------------------------------------------
(* The app over time: the sites change between two runs.                   *)

\* What the sites serve at the time of a run: ecnu is up or down, the feed
\* works or fails, the other sites are up.
LiveWorlds ==
    {w \in Worlds :
        /\ FaultCount(w) <= MaxFaults
        /\ \A s \in SiteSet : ~w.raises[s]
        /\ \A s \in SiteSet \ {"ecnu"} : w.net[s] = "ok"}

\* Between two runs a site goes down or comes back, the feed breaks or is
\* repaired.
PagesChange ==
    /\ pc = "idle"
    /\ world' \in LiveWorlds \ {world}
    /\ UNCHANGED <<poolVars, sessionVars, callVars>>

InitLive ==
    /\ world \in LiveWorlds
    /\ PoolIdle
    /\ SessionEmpty
    /\ call = NoCall
    /\ ret = <<>>

NextLive == PagesChange \/ FetchButton \/ Next

SpecLive == InitLive /\ [][NextLive]_vars

---------------------------------------------------------------------------
(* Properties of a run.                                                    *)

\* scrape_all_universities has returned: all_news and errors are the pair.
Returned == pc = "idle" /\ fetched

Range(seq) == {seq[i] : i \in 1..Len(seq)}

\* What a site's extractor produces from the site's page.
Extracted(s) == ParserOutput[s][world.feed]

\* The fetch of f's page fails and it is the only failure among the pages
\* and the extractors.
OnlyFetchFailure(f) ==
    /\ world.net[f] = "fail"
    /\ \A s \in SiteSet \ {f} : world.net[s] = "ok" /\ ~world.raises[s]

\* C1: fault isolation.  When the page fetch of exactly one site fails and
\* the other five sites are fetched and extracted, then, whatever order the
\* tasks complete in, the returned news list holds every record the other
\* five extractors produced and none of the failed site, and the returned
\* error list is one string, which names the failed site.
C1_FaultIsolation ==
    Returned =>
        \A f \in SiteSet :
            OnlyFetchFailure(f) =>
                /\ \A s \in SiteSet \ {f} : Range(Extracted(s)) \subseteq Range(all_news)
                /\ \A r \in Range(all_news) : r.source # f
                /\ Len(errors) = 1
                /\ errors[1].site = f

\* A run in which ecnu's fetch failed and tongji was collected before fudan
\* and sjtu, which were submitted before it.
C1_Witness ==
    /\ Returned
    /\ OnlyFetchFailure("ecnu")
    /\ Len(all_news) = 5
    /\ all_news[1].source = "tongji"
    /\ errors = <<[site |-> "ecnu", kind |-> "fetch_failed"]>>

NoRealDate(r) == r.date = <<>> \/ r.date = sentinel

\* C2: sort property.  In the returned list a record's own date is never
\* less than the date of a record behind it (string comparison), and no
\* record with a real date stands behind one whose date is empty or the
\* sentinel "0000-00-00".
C2_SortedByOwnDate ==
    Returned =>
        \A i \in 1..Len(all_news) : \A j \in (i + 1)..Len(all_news) :
            /\ ~StrLess(all_news[i].date, all_news[j].date)
            /\ NoRealDate(all_news[i]) => NoRealDate(all_news[j])

\* C3: idempotence.  A run that follows another run against the same pages
\* and feed returns the list the earlier run returned, whatever order the
\* tasks complete in.
C3_Idempotent ==
    [][(pc = "pool" /\ pc' = "idle" /\ fetched) => news_data' = news_data]_vars

AllFetchesFail == \A s \in SiteSet : world.net[s] = "fail"

\* Every site's task has run and its outcome was collected once.
AllDelivered ==
    /\ \A s \in SiteSet : task[s] = "collected" /\ future[s].name = s
    /\ Len(errors) = Cardinality({s \in SiteSet : future[s].error # <<>>})
    /\ \A s \in SiteSet : future[s].error # <<>> =>
            \E i \in 1..Len(errors) : errors[i].site = s
    /\ Len(all_news) = Len(Flatten([i \in 1..Len(Sites) |-> future[Sites[i]].news]))

\* C4: no error is fatal.  Whatever the sites' outcomes (fetch failure,
\* extractor exception, success with or without records), the run returns,
\* and when it has returned every one of the six sites was attempted and
\* delivered one outcome to the collector; when all six fetches fail the
\* result is the empty news list and six error strings, one per site.
C4_NoErrorIsFatal ==
    /\ (pc = "pool") ~> Returned
    /\ [](Returned => AllDelivered)
    /\ [](Returned /\ AllFetchesFail =>
            /\ all_news = <<>>
            /\ Len(errors) = 6
            /\ {errors[i].site : i \in 1..Len(errors)} = SiteSet)

\* All six fetches failed and the run returned.
C4_Witness ==
    /\ Returned
    /\ AllFetchesFail
    /\ all_news = <<>>
    /\ Len(errors) = 6

\* The records of site s in a list, in the list's order.
OfSite(news, s) == SelectSeq(news, LAMBDA r : r.source = s)

ErrorsOf(errs, s) == SelectSeq(errs, LAMBDA e : e.site = s)

\* C9: secondary-feed failure.  When the data-feed site's page is fetched
\* and the feed request raises, or its text lacks the assignment, or the
\* array does not parse, the site contributes no record and no error
\* string, and every other site's records and errors are those of a run
\* whose feed works.
C9_FeedFailure ==
    Returned /\ world.net["shsy"] = "ok" /\ world.feed # "ok" =>
        /\ OfSite(all_news, "shsy") = <<>>
        /\ ErrorsOf(errors, "shsy") = <<>>
        /\ \A s \in SiteSet \ {"shsy"} :
              LET other == scrape_university(s, UNIVERSITIES[s],
                                             [world EXCEPT !.feed = "ok"])
              IN  /\ OfSite(all_news, s) = other.news
                  /\ ErrorsOf(errors, s) = other.error

\* The feed's array did not parse; the other five sites' records are there.
C9_Witness ==
    /\ Returned
    /\ world.net["shsy"] = "ok"
    /\ world.feed = "unparsable"
    /\ Len(all_news) = 5
    /\ errors = <<>>

\* One task per site: a site's task is queued once while it is pending.
OneTaskPerSite ==
    /\ \A s \in SiteSet : task[s] # "none"
    /\ \A s \in SiteSet :
          Cardinality({i \in 1..Len(work_queue) : work_queue[i] = s})
              = (IF task[s] = "pending" THEN 1 ELSE 0)

\* A task that starts when five tasks were started before it starts after
\* one of them has completed.
WaitingStartsAfterCompletion ==
    \A s \in SiteSet :
        (/\ task[s] = "pending"
         /\ task'[s] = "running"
         /\ Len(Sites) - Len(work_queue) >= 5)
            => \E u \in SiteSet : task[u] \in {"finished", "collected"}

\* C10: bounded worker pool.  One task per site is submitted, six in all;
\* never more than five tasks run at the same time; a task that waited for
\* a worker starts only after a running task has completed; every
\* submitted task eventually runs.
C10_BoundedPool ==
    /\ [](pc = "pool" => OneTaskPerSite /\ Cardinality(Running) <= 5)
    /\ [][WaitingStartsAfterCompletion]_vars
    /\ <>(\A s \in SiteSet : task[s] # "pending")

\* The sixth task runs beside four others, five at once.
C10_Witness ==
    /\ pc = "pool"
    /\ task["shsy"] = "running"
    /\ Cardinality(Running) = 5

---------------------------------------------------------------------------
(* Properties of the validator and of the extractors.                      *)

ParserCall == call.fn \in {"parse_list", "parse_sjtu", "parse_shsy"}

\* An absolute URL: it has a scheme.
IsAbsoluteURL(u) == SchemeEnd(u) > 0

\* C5: record invariant.  Every record an extractor returns has a title of
\* at least the site's minimum length (6, and 2 for the data feed), a
\* non-empty date and an absolute URL.
C5_RecordInvariant ==
    ParserCall /\ ret # <<>> =>
        \A r \in Range(ret[1]) :
            /\ Len(r.title) >= (IF call.site = "shsy" THEN 2 ELSE 6)
            /\ r.date # <<>>
            /\ IsAbsoluteURL(r.url)

\* The feed of the fixture: one element, with the title given.
FixtureCall(title) ==
    [fn |-> "parse_shsy", site |-> "shsy",
     feed |-> [raises |-> FALSE, assigned |-> TRUE, parses |-> TRUE,
               data |-> <<[typed |-> TRUE, messagetitle |-> title,
                           messagedate |-> <<"2", "0", "2", "4", "-", "0", "1", "-", "0", "1">>,
                           messageurl |-> <<"d", "e", "t", "a", "i", "l", "p", "a", "g", "e", "/", "1", ".", "h", "t", "m", "l">>]>>]]

FixtureUrl ==
    <<"h", "t", "t", "p", "s", ":", "/", "/", "w", "w", "w", ".", "s", "h", "s", "y", ".", "o", "r", "g", ".", "c", "n", "/", "d", "e", "t", "a", "i", "l", "p", "a", "g", "e", "/", "1", ".", "h", "t", "m", "l">>

\* C6 as stated: the fixture payload, whose title is "T", yields exactly
\* one record, and its url is https://www.shsy.org.cn/detailpage/1.html.
C6_Fixture ==
    call = FixtureCall(<<"T">>) /\ ret # <<>> =>
        Len(ret[1]) = 1 /\ ret[1][1].url = FixtureUrl

\* C6, amended: the fixture payload with a title of at least two characters
\* yields exactly one record, whose url is
\* https://www.shsy.org.cn/detailpage/1.html; with the one-character title
\* "T" it yields no record.
C6_FixtureAmended ==
    \A title \in FeedTitleInputs :
        call = FixtureCall(title) /\ ret # <<>> =>
            IF Len(Strip(title)) >= 2
            THEN Len(ret[1]) = 1 /\ ret[1][1].url = FixtureUrl
            ELSE ret[1] = <<>>

\* The fixture with the title "TT" has yielded its record.
C6_Witness ==
    /\ call = FixtureCall(<<"T", "T">>)
    /\ ret # <<>>
    /\ Len(ret[1]) = 1
    /\ ret[1][1].url = FixtureUrl

\* The four grounds of rejection, as the contract lists them.
Rejected(title, url, date_text) ==
    \/ Len(title) < 6
    \/ title \in nav_keywords
    \/ Len(title) < 10 /\ \E kw \in nav_keywords : Contains(title, kw)
    \/ Contains(url, list_htm) /\ ~Contains(url, slash_c)
    \/ date_text = <<>>

\* C7: validator contract.  is_valid_news returns False exactly when the
\* title is shorter than 6, or equals a denylist label, or contains one and
\* is shorter than 10, or the url contains "list.htm" and not "/c", or the
\* date is empty; a title of 10 or more characters is never rejected by the
\* denylist, and an empty date is always rejected.
C7_ValidatorContract ==
    call.fn = "is_valid_news" /\ ret # <<>> =>
        /\ ret[1] = ~Rejected(call.title, call.url, call.date_text)
        /\ call.date_text = <<>> => ret[1] = FALSE
        /\ (/\ Len(call.title) >= 10
            /\ call.date_text # <<>>
            /\ ~(Contains(call.url, list_htm) /\ ~Contains(call.url, slash_c)))
                => ret[1] = TRUE

\* A title of ten characters that contains a denylist label was accepted.
C7_Witness ==
    /\ call.fn = "is_valid_news"
    /\ Len(call.title) = 10
    /\ \E kw \in nav_keywords : Contains(call.title, kw)
    /\ ret = <<TRUE>>

\* C8: date normalization.  The date of every record an extractor emits is
\* written with "-" separators: a "." or "/" of the source's date token
\* does not appear in it, whichever path supplied the date.
C8_DatesNormalized ==
    ParserCall /\ ret # <<>> =>
        \A r \in Range(ret[1]) : r.date = NormalizeSeps(r.date)

\* The date a list item is to carry: the text of its date element when that
\* text is not empty, else the first date of the item's full text.
ClaimedDate(item) ==
    IF item.hasSpan /\ Strip(item.span) # <<>> THEN Strip(item.span)
    ELSE ReplaceChar(SearchDate(ItemText(item), ListSeps), "/", "-")

\* C12: date of a list item.  For a candidate item with a link, the
\* list-based extractors take the date from the date element when it yields
\* one and otherwise from the first date pattern of the item's full text,
\* and validate and emit the record with that date: an item whose text
\* holds a date pattern is not emitted with, or rejected for, an empty date.
C12_DateFallback ==
    call.fn = "parse_list" /\ ret # <<>> =>
        \A item \in Range(NewsItems(call.html)) :
            item.hasLink /\ item.href # <<>> =>
                LET title == Strip(item.title)
                    url == urljoin(UNIVERSITIES[call.site].base_url, item.href)
                    date_text == ClaimedDate(item)
                IN  ret[1] = IF is_valid_news(title, url, date_text)
                             THEN <<NewsRecord(call.site, title, date_text, url)>>
                             ELSE <<>>

---------------------------------------------------------------------------
(* Properties of a run, per site.                                          *)

\* C13: per-site outcome.  At every point of a run, a task that returned
\* an error returned no record; each site has at most one string in the
\* error list and the list has at most six; a site has records in the news
\* list or a string in the error list, never both, so the source of every
\* record is a site without an entry in the error list.
C13_OneOutcomePerSite ==
    /\ \A s \in SiteSet : future[s].error # <<>> => future[s].news = <<>>
    /\ \A s \in SiteSet : Len(future[s].error) <= 1
    /\ \A s \in SiteSet : Len(ErrorsOf(errors, s)) <= 1
    /\ Len(errors) <= 6
    /\ \A s \in SiteSet : OfSite(all_news, s) = <<>> \/ ErrorsOf(errors, s) = <<>>
    /\ \A r \in Range(all_news) : ErrorsOf(errors, r.source) = <<>>

\* tongji's extractor raised: the run returned its error and the records of
\* the other five sites, none of tongji.
C13_Witness ==
    /\ Returned
    /\ world.raises["tongji"]
    /\ Len(ErrorsOf(errors, "tongji")) = 1
    /\ OfSite(all_news, "tongji") = <<>>
    /\ Len(all_news) = 5

\* The positions of site s's request log that hold a request of kind k.
RequestsOf(s, k) == {i \in 1..Len(requests[s]) : requests[s][i] = k}

TaskDone(s) == task[s] \in {"finished", "collected"}

\* C14: order of the data-feed site's requests.  The feed is requested only
\* after the site's listing page was requested and came; when the page
\* fetch fails the feed is never requested, though it is available, and the
\* site yields no record and the fetch-failure error; and in a run no
\* site's listing page is requested more than once.
C14_FeedAfterPage ==
    /\ \A i \in RequestsOf("shsy", "feed") :
          /\ world.net["shsy"] = "ok"
          /\ \E j \in RequestsOf("shsy", "page") : j < i
    /\ world.net["shsy"] = "fail" /\ TaskDone("shsy") =>
          /\ RequestsOf("shsy", "feed") = {}
          /\ future["shsy"].news = <<>>
          /\ future["shsy"].error = <<ErrorString("shsy", "fetch_failed")>>
    /\ world.net["shsy"] = "fail" /\ task["shsy"] = "collected" =>
          /\ OfSite(all_news, "shsy") = <<>>
          /\ ErrorsOf(errors, "shsy") = <<ErrorString("shsy", "fetch_failed")>>
    /\ \A s \in SiteSet : Cardinality(RequestsOf(s, "page")) <= 1
    /\ \A s \in SiteSet : TaskDone(s) => Cardinality(RequestsOf(s, "page")) = 1

\* The run returned after the data-feed site's page fetch failed with the
\* feed available: its task asked for the page and for nothing else.
C14_Witness ==
    /\ Returned
    /\ world.net["shsy"] = "fail"
    /\ world.feed = "ok"
    /\ requests["shsy"] = <<"page">>
    /\ ErrorsOf(errors, "shsy") = <<ErrorString("shsy", "fetch_failed")>>
    /\ \E s \in SiteSet \ {"shsy"} : OfSite(all_news, s) # <<>>

---------------------------------------------------------------------------
(* Properties of the app over several runs.                                *)

\* What site s yields in a run against the pages served now.
RunOutput(s) == scrape_university(s, UNIVERSITIES[s], world)

\* A run returns: the step that stores its pair for display.
RunReturns == pc = "pool" /\ pc' = "idle"

\* C11: every run starts cold.  When a run returns, after any runs before
\* it and whatever they showed, the news and errors held for display are
\* the returned pair, and they are, site by site, what this run's tasks
\* yielded from the pages served now: no record and no error of an earlier
\* run is among them, none is there twice and none is missing.
C11_ColdStart ==
    [][RunReturns =>
        /\ news_data' = all_news'
        /\ session_errors' = errors'
        /\ \A r \in Range(news_data') : r.source \in SiteSet
        /\ \A e \in Range(session_errors') : e.site \in SiteSet
        /\ \A s \in SiteSet :
              /\ OfSite(news_data', s) = RunOutput(s).news
              /\ ErrorsOf(session_errors', s) = RunOutput(s).error]_vars

\* A later run is about to return all six sites' records while the display
\* holds the result of a run in which ecnu was down.
C11_Witness ==
    /\ pc = "pool"
    /\ \A s \in SiteSet : task[s] = "collected"
    /\ fetched
    /\ Len(news_data) = 5
    /\ \E i \in 1..Len(session_errors) : session_errors[i].site = "ecnu"
    /\ world = CalmWorld
    /\ Len(all_news) = 6
    /\ errors = <<>>

=============================================================================
